---- MODULE Spec2Model ----
(***************************************************************************)
(* Cycle engine of the Tomasulo simulator (TomasuloSim in                  *)
(* tomasulo_entrega.py): ROB, reservation stations, load/store buffer,     *)
(* RAT, 1-bit predictor with RAT checkpoints, and the five pipeline stages *)
(* that step() runs in order each cycle.                                   *)
(*                                                                         *)
(* Encoding of Python values:                                              *)
(*   Optional[int] holding an arbitrary integer (Vj, Vk, Vt, address, imm, *)
(*   ROB value, branch_taken) : << >> is None, <<v>> is the value v; a     *)
(*   STORE's ROB value (address, data) is the pair <<address, data>> whose *)
(*   address is itself an optional integer.                                *)
(*   Optional index (ROB id, tag, PC, checkpoint id, register name,        *)
(*   enqueue sequence, cycle stamp) : Nil is None.                         *)
(*   Register "Rn" is the number n.                                        *)
(***************************************************************************)
EXTENDS Integers, Sequences, FiniteSets, TLC

\* sim is the TomasuloSim object; stage is the position of step() in its
\* body: the stage it runs next ("commit" between two calls).
VARIABLES sim, stage

\* ------------------------------------------------------------------------
\* Configuration (TomasuloSim.__init__).  The three structure sizes are
\* attributes of the object, read by find_free_rob_index and fixed by the
\* lengths of the rob, rs and lsb lists; __init__ gives them the defaults.
\* ------------------------------------------------------------------------
DefaultRobSize == 16
DefaultRsCount == 8
DefaultLsbSize == 8
rob_size == sim.rob_size
rs_count == sim.rs_count
lsb_size == sim.lsb_size
issue_width == 1
commit_width == 1
register_count == 32

\* Bounds of the model
MaxCycle == 30
NumAdds == 20
MaxSize == 2

Nil == -1
None == << >>
Some(v) == <<v>>

IsNone(x) == x = None
\* Python's "x or 0" / "x if x is not None else 0" on an optional integer
OrZero(x) == IF x = None THEN 0 ELSE x[1]

Regs == 0 .. (register_count - 1)
RobIds == 0 .. (rob_size - 1)
RsIds == 0 .. (rs_count - 1)
LsbIds == 0 .. (lsb_size - 1)

latencies(op) ==
    CASE op = "ADD" -> 2
      [] op = "SUB" -> 2
      [] op = "MUL" -> 4
      [] op = "DIV" -> 8
      [] op = "LW" -> 3
      [] op = "SW" -> 2
      [] op = "BEQ" -> 1
      [] op = "NOP" -> 1

\* a // b of Python (floor division), b # 0
FloorDiv(a, b) == IF b > 0 THEN a \div b ELSE (0 - a) \div (0 - b)

\* ------------------------------------------------------------------------
\* Data structures
\* ------------------------------------------------------------------------
Instruction(pc, op, rd, rs, rt, imm) ==
    [pc |-> pc, op |-> op, rd |-> rd, rs |-> rs, rt |-> rt, imm |-> imm,
     state |-> "NotFetched", rob_id |-> Nil, rs_id |-> Nil, lsb_id |-> Nil,
     speculative |-> FALSE, issue_cycle |-> Nil, exec_end |-> Nil,
     wb_cycle |-> Nil, commit_cycle |-> Nil]

ROBEntry(id) ==
    [id |-> id, busy |-> FALSE, instr_pc |-> Nil, dest |-> Nil, value |-> None,
     ready |-> FALSE, committed |-> FALSE, speculative |-> FALSE,
     type |-> "None", branch_taken |-> None, checkpoint_id |-> Nil,
     enqueue_seq |-> Nil]

ReservationStation(id) ==
    [id |-> id, busy |-> FALSE, op |-> "None", Vj |-> None, Vk |-> None,
     Qj |-> Nil, Qk |-> Nil, rob_id |-> Nil, instr_pc |-> Nil,
     exec_cycles_left |-> 0]

LSBEntry(id) ==
    [id |-> id, busy |-> FALSE, op |-> "None", address |-> None, Vt |-> None,
     Qt |-> Nil, rob_id |-> Nil, instr_pc |-> Nil, exec_cycles_left |-> 0,
     resolved_address |-> FALSE]

Checkpoint(id, rat, seq) == [id |-> id, RAT |-> rat, enqueue_seq_snapshot |-> seq]

\* ------------------------------------------------------------------------
\* Program text -> instruction list (parse_program_text), one operator per
\* line shape of the grammar; the PC is assigned by ParseProgram.
\* ------------------------------------------------------------------------
Arith(op, rd, rs, rt) == [op |-> op, rd |-> rd, rs |-> rs, rt |-> rt, imm |-> None]
ADD(rd, rs, rt) == Arith("ADD", rd, rs, rt)
SUB(rd, rs, rt) == Arith("SUB", rd, rs, rt)
MUL(rd, rs, rt) == Arith("MUL", rd, rs, rt)
DIV(rd, rs, rt) == Arith("DIV", rd, rs, rt)
\* "LW Rt, imm(Rs)" and "SW Rt, imm(Rs)"
LW(rt, imm, rs) == [op |-> "LW", rd |-> Nil, rs |-> rs, rt |-> rt, imm |-> Some(imm)]
SW(rt, imm, rs) == [op |-> "SW", rd |-> Nil, rs |-> rs, rt |-> rt, imm |-> Some(imm)]
BEQ(rs, rt, target) == [op |-> "BEQ", rd |-> Nil, rs |-> rs, rt |-> rt, imm |-> Some(target)]
NOP == [op |-> "NOP", rd |-> Nil, rs |-> Nil, rt |-> Nil, imm |-> None]

ParseProgram(lines) ==
    [k \in 1 .. Len(lines) |->
        Instruction(4 * (k - 1), lines[k].op, lines[k].rd, lines[k].rs,
                    lines[k].rt, lines[k].imm)]

\* register_file after preloading: all 0 except the given registers
Preload(f) == [r \in Regs |-> IF r \in DOMAIN f THEN f[r] ELSE 0]

\* ------------------------------------------------------------------------
\* The machine: one record per TomasuloSim object, fields named as in the
\* class.  commit_trace and wrong_path are observation fields (not fields of
\* the class): the enqueue sequences retired so far, in retirement order,
\* and the PCs of the instructions that were in flight behind a branch when
\* it resolved as mispredicted.
\* ------------------------------------------------------------------------
MemGet(mem, key) == IF key \in DOMAIN mem THEN mem[key] ELSE 0
MemSet(mem, key, val) ==
    [k \in (DOMAIN mem) \cup {key} |-> IF k = key THEN val ELSE mem[k]]
EmptyDict == [k \in {} |-> 0]

NewSimSized(lines, regs, robs, rss, lsbs) ==
    [rob_size |-> robs,
     rs_count |-> rss,
     lsb_size |-> lsbs,
     program |-> ParseProgram(lines),
     pc |-> 0,
     memory |-> EmptyDict,
     register_file |-> regs,
     RAT |-> [r \in Regs |-> Nil],
     rob |-> [i \in 0 .. (robs - 1) |-> ROBEntry(i)],
     rob_enqueue_seq |-> 0,
     rs |-> [i \in 0 .. (rss - 1) |-> ReservationStation(i)],
     lsb |-> [i \in 0 .. (lsbs - 1) |-> LSBEntry(i)],
     cycle |-> 0,
     predictor |-> EmptyDict,
     checkpoints |-> EmptyDict,
     next_checkpoint_id |-> 1,
     active_checkpoint_id |-> Nil,
     committed_count |-> 0,
     total_stalls |-> 0,
     branch_mispredictions |-> 0,
     halted |-> FALSE,
     commit_trace |-> << >>,
     wrong_path |-> {}]

NewSim(lines, regs) ==
    NewSimSized(lines, regs, DefaultRobSize, DefaultRsCount, DefaultLsbSize)

\* "for ins in self.program: if ins.pc == pc: <update>"
RECURSIVE FirstAt(_, _, _)
FirstAt(prog, pc, k) ==
    IF k > Len(prog) THEN 0
    ELSE IF prog[k].pc = pc THEN k ELSE FirstAt(prog, pc, k + 1)

\* ------------------------------------------------------------------------
\* commit_stage
\* ------------------------------------------------------------------------
SeqKey(e) == IF e.enqueue_seq = Nil THEN 0 ELSE e.enqueue_seq

\* sorted([e for e in rob if e.busy], key=enqueue_seq or 0); the sort is
\* stable, so equal keys stay in slot order
RECURSIVE SortedBusy(_, _)
SortedBusy(rob, S) ==
    IF S = {} THEN << >>
    ELSE LET i == CHOOSE a \in S : \A b \in S :
                     \/ SeqKey(rob[a]) < SeqKey(rob[b])
                     \/ (SeqKey(rob[a]) = SeqKey(rob[b]) /\ a <= b)
         IN <<i>> \o SortedBusy(rob, S \ {i})

\* fault variant: the retirement candidates are the ready entries only, so a
\* not-ready oldest entry no longer blocks younger ones
busy_entries_ready_only(m) ==
    SortedBusy(m.rob, {i \in RobIds : m.rob[i].busy /\ m.rob[i].ready})

busy_entries(m) == SortedBusy(m.rob, {i \in RobIds : m.rob[i].busy})

Take(s, n) == SubSeq(s, 1, IF Len(s) < n THEN Len(s) ELSE n)

\* lines 302-310: the architectural write of a retiring entry
CommitRegisterFile(m, ent) ==
    IF ent.type = "REG" /\ ent.dest # Nil /\ m.RAT[ent.dest] = ent.id
    THEN [m.register_file EXCEPT ![ent.dest] = OrZero(ent.value)]
    ELSE m.register_file

CommitRAT(m, ent) ==
    IF ent.type = "REG" /\ ent.dest # Nil /\ m.RAT[ent.dest] = ent.id
    THEN [m.RAT EXCEPT ![ent.dest] = Nil]
    ELSE m.RAT

CommitMemory(m, ent) ==
    IF ~(ent.type = "REG" /\ ent.dest # Nil) /\ ent.type = "STORE" /\ Len(ent.value) = 2
    THEN MemSet(m.memory, ent.value[1], ent.value[2])
    ELSE m.memory

\* lines 312-316
CommitInstr(m, ent) ==
    LET k == FirstAt(m.program, ent.instr_pc, 1)
    IN IF k = 0 THEN m.program
       ELSE [m.program EXCEPT ![k].state = "Committed", ![k].commit_cycle = m.cycle]

\* fault variant: a retired entry is cleared but its slot is not released
RetireEntryStaysBusy(ent) ==
    [ent EXCEPT !.ready = FALSE, !.committed = TRUE,
                !.instr_pc = Nil, !.dest = Nil, !.value = None, !.type = "None",
                !.branch_taken = None, !.checkpoint_id = Nil, !.enqueue_seq = Nil]

\* lines 318-328
RetireEntry(ent) ==
    [ent EXCEPT !.busy = FALSE, !.ready = FALSE, !.committed = TRUE,
                !.instr_pc = Nil, !.dest = Nil, !.value = None, !.type = "None",
                !.branch_taken = None, !.checkpoint_id = Nil, !.enqueue_seq = Nil]

commit_entry(m, i) ==
    LET ent == m.rob[i]
    IN [m EXCEPT !.register_file = CommitRegisterFile(m, ent),
                 !.RAT = CommitRAT(m, ent),
                 !.memory = CommitMemory(m, ent),
                 !.program = CommitInstr(m, ent),
                 !.rob = [m.rob EXCEPT ![i] = RetireEntry(ent)],
                 !.committed_count = m.committed_count + 1,
                 !.commit_trace = Append(m.commit_trace, ent.enqueue_seq)]

RECURSIVE commit_loop(_, _)
commit_loop(m, ents) ==
    IF ents = << >> THEN m
    ELSE IF ~m.rob[Head(ents)].ready THEN m
    ELSE commit_loop(commit_entry(m, Head(ents)), Tail(ents))

commit_stage(m) == commit_loop(m, Take(busy_entries(m), commit_width))

\* a reset that clears the station's fields and leaves it marked busy
FreeRSStaysBusy(r) ==
    [r EXCEPT !.op = "None", !.Vj = None, !.Vk = None,
              !.Qj = Nil, !.Qk = Nil, !.rob_id = Nil, !.instr_pc = Nil,
              !.exec_cycles_left = 0]

\* ------------------------------------------------------------------------
\* write_result_stage
\* ------------------------------------------------------------------------
\* the slot reset written out at lines 354-362, 382-390 and 671-679
FreeRS(r) ==
    [r EXCEPT !.busy = FALSE, !.op = "None", !.Vj = None, !.Vk = None,
              !.Qj = Nil, !.Qk = Nil, !.rob_id = Nil, !.instr_pc = Nil,
              !.exec_cycles_left = 0]

\* lines 405-413
FreeLSB(l) ==
    [l EXCEPT !.busy = FALSE, !.op = "None", !.address = None, !.Vt = None,
              !.Qt = Nil, !.rob_id = Nil, !.instr_pc = Nil,
              !.exec_cycles_left = 0, !.resolved_address = FALSE]

\* the condition under which a reservation station writes back (line 340)
RSWritesBack(r) == r.busy /\ r.exec_cycles_left = 0 /\ r.rob_id # Nil

\* the condition under which a load/store buffer entry writes back (line 398)
LSBWritesBack(l) == l.busy /\ l.exec_cycles_left = 0 /\ l.rob_id # Nil

\* "for ins in self.program: if ins.pc == pc: state = WB" (no break)
MarkWB(prog, pc, cycle) ==
    [k \in DOMAIN prog |->
        IF prog[k].pc = pc
        THEN [prog[k] EXCEPT !.state = "WB", !.wb_cycle = cycle]
        ELSE prog[k]]

\* an ALU whose division by zero yields the dividend
AluValueDivZeroKeeps(r) ==
    LET a == OrZero(r.Vj)
        b == OrZero(r.Vk)
    IN CASE r.op = "ADD" -> a + b
         [] r.op = "SUB" -> a - b
         [] r.op = "MUL" -> a * b
         [] r.op = "DIV" -> (IF b # 0 THEN FloorDiv(a, b) ELSE a)
         [] OTHER -> OrZero(r.Vj)

\* lines 365-378
AluValue(r) ==
    LET a == OrZero(r.Vj)
        b == OrZero(r.Vk)
    IN CASE r.op = "ADD" -> a + b
         [] r.op = "SUB" -> a - b
         [] r.op = "MUL" -> a * b
         [] r.op = "DIV" -> (IF b # 0 THEN FloorDiv(a, b) ELSE 0)
         [] OTHER -> OrZero(r.Vj)

\* lines 341-348
BranchOutcome(r) == OrZero(r.Vj) = OrZero(r.Vk)

\* one iteration of "for r in self.rs" (lines 339-394); acc = [m, results]
WriteBackRS(acc, i) ==
    LET m == acc.m
        r == m.rs[i]
    IN IF ~RSWritesBack(r) THEN acc
       ELSE IF r.op = "BEQ"
       THEN [acc EXCEPT
               !.m = [m EXCEPT
                        !.rob = IF r.rob_id \in RobIds
                                THEN [m.rob EXCEPT ![r.rob_id].branch_taken = Some(BranchOutcome(r)),
                                                   ![r.rob_id].ready = TRUE]
                                ELSE m.rob,
                        !.program = MarkWB(m.program, r.instr_pc, m.cycle),
                        !.rs = [m.rs EXCEPT ![i] = FreeRS(r)]]]
       ELSE [m |-> [m EXCEPT !.rs = [m.rs EXCEPT ![i] = FreeRS(r)],
                             !.program = MarkWB(m.program, r.instr_pc, m.cycle)],
             results |-> Append(acc.results, <<r.rob_id, r.op, Some(AluValue(r))>>)]

\* one iteration of "for l in self.lsb" (lines 397-417)
WriteBackLSB(acc, i) ==
    LET m == acc.m
        l == m.lsb[i]
    IN IF ~LSBWritesBack(l) THEN acc
       ELSE [m |-> [m EXCEPT !.lsb = [m.lsb EXCEPT ![i] = FreeLSB(l)],
                             !.program = MarkWB(m.program, l.instr_pc, m.cycle)],
             results |->
                 IF l.op = "LW"
                 THEN Append(acc.results, <<l.rob_id, "LW", Some(MemGet(m.memory, l.address))>>)
                 ELSE IF l.op = "SW"
                 THEN Append(acc.results, <<l.rob_id, "SW", <<l.address, OrZero(l.Vt)>> >>)
                 ELSE acc.results]

RECURSIVE WriteBackRSLoop(_, _)
WriteBackRSLoop(acc, i) ==
    IF i >= rs_count THEN acc ELSE WriteBackRSLoop(WriteBackRS(acc, i), i + 1)

RECURSIVE WriteBackLSBLoop(_, _)
WriteBackLSBLoop(acc, i) ==
    IF i >= lsb_size THEN acc ELSE WriteBackLSBLoop(WriteBackLSB(acc, i), i + 1)

\* "value if not isinstance(value, tuple) else (value[1] if op == 'SW' else value)"
Scalar(op, value) ==
    IF Len(value) = 2 /\ op = "SW" THEN Some(value[2]) ELSE value

\* fault variant: the CDB also writes the destination register (no ROB
\* buffering of the architectural write)
BroadcastToRegisterFile(m, res) ==
    LET rob_id == res[1]
        op == res[2]
        value == res[3]
        dest == m.rob[rob_id].dest
    IN [m EXCEPT
          !.rob = [m.rob EXCEPT ![rob_id].value = value, ![rob_id].ready = TRUE],
          !.register_file = IF dest # Nil /\ Len(value) = 1
                            THEN [m.register_file EXCEPT ![dest] = value[1]]
                            ELSE m.register_file,
          !.rs = [i \in RsIds |->
                    LET r == m.rs[i]
                    IN IF ~r.busy THEN r
                       ELSE [r EXCEPT
                               !.Vj = IF r.Qj = rob_id THEN Scalar(op, value) ELSE r.Vj,
                               !.Qj = IF r.Qj = rob_id THEN Nil ELSE r.Qj,
                               !.Vk = IF r.Qk = rob_id THEN Scalar(op, value) ELSE r.Vk,
                               !.Qk = IF r.Qk = rob_id THEN Nil ELSE r.Qk]],
          !.lsb = [i \in LsbIds |->
                    LET l == m.lsb[i]
                    IN IF ~l.busy THEN l
                       ELSE [l EXCEPT
                               !.Vt = IF l.Qt = rob_id THEN Scalar(op, value) ELSE l.Vt,
                               !.Qt = IF l.Qt = rob_id THEN Nil ELSE l.Qt]]]

\* lines 420-439: one (rob_id, op, value) on the CDB
Broadcast(m, res) ==
    LET rob_id == res[1]
        op == res[2]
        value == res[3]
    IN [m EXCEPT
          !.rob = IF rob_id \in RobIds
                  THEN [m.rob EXCEPT ![rob_id].value = value, ![rob_id].ready = TRUE]
                  ELSE m.rob,
          !.rs = [i \in RsIds |->
                    LET r == m.rs[i]
                    IN IF ~r.busy THEN r
                       ELSE [r EXCEPT
                               !.Vj = IF r.Qj = rob_id THEN Scalar(op, value) ELSE r.Vj,
                               !.Qj = IF r.Qj = rob_id THEN Nil ELSE r.Qj,
                               !.Vk = IF r.Qk = rob_id THEN Scalar(op, value) ELSE r.Vk,
                               !.Qk = IF r.Qk = rob_id THEN Nil ELSE r.Qk]],
          !.lsb = [i \in LsbIds |->
                    LET l == m.lsb[i]
                    IN IF ~l.busy THEN l
                       ELSE [l EXCEPT
                               !.Vt = IF l.Qt = rob_id THEN Scalar(op, value) ELSE l.Vt,
                               !.Qt = IF l.Qt = rob_id THEN Nil ELSE l.Qt]]]

RECURSIVE BroadcastLoop(_, _)
BroadcastLoop(m, results) ==
    IF results = << >> THEN m
    ELSE BroadcastLoop(Broadcast(m, Head(results)), Tail(results))

write_result_stage(m) ==
    LET a1 == WriteBackRSLoop([m |-> m, results |-> << >>], 0)
        a2 == WriteBackLSBLoop(a1, 0)
    IN BroadcastLoop(a2.m, a2.results)

\* ------------------------------------------------------------------------
\* step, lines 768-782: branch stations still busy after write_result_stage
\* ------------------------------------------------------------------------
BranchStationReady(r) ==
    /\ r.busy
    /\ r.op = "BEQ"
    /\ r.Qj = Nil
    /\ r.Qk = Nil
    /\ r.rob_id # Nil
    /\ r.exec_cycles_left = 0

RECURSIVE BranchReadyLoop(_, _)
BranchReadyLoop(m, i) ==
    IF i >= rs_count THEN m
    ELSE LET r == m.rs[i]
         IN BranchReadyLoop(
               IF BranchStationReady(r)
               THEN [m EXCEPT !.rob = [m.rob EXCEPT
                                         ![r.rob_id].branch_taken = Some(BranchOutcome(r)),
                                         ![r.rob_id].ready = TRUE]]
               ELSE m,
               i + 1)

branch_ready_scan(m) == BranchReadyLoop(m, 0)

\* ------------------------------------------------------------------------
\* execute_stage
\* ------------------------------------------------------------------------
\* "for ins in self.program: if ins.pc == pc: state = Executing ..." (no break)
MarkExecuting(prog, pc, left, cycle) ==
    [k \in DOMAIN prog |->
        IF prog[k].pc = pc
        THEN [prog[k] EXCEPT !.state = "Executing",
                             !.exec_end = IF left = 0 THEN cycle ELSE prog[k].exec_end]
        ELSE prog[k]]

\* an execute stage that stops counting one cycle early
CountsAboveOne(st) == st.busy /\ st.exec_cycles_left > 1

\* whether the execute stage counts a station down this cycle (lines 443, 452)
Counts(st) == st.busy /\ st.exec_cycles_left > 0

RECURSIVE ExecuteRSLoop(_, _)
ExecuteRSLoop(m, i) ==
    IF i >= rs_count THEN m
    ELSE LET r == m.rs[i]
         IN ExecuteRSLoop(
               IF Counts(r)
               THEN [m EXCEPT !.rs = [m.rs EXCEPT ![i].exec_cycles_left = r.exec_cycles_left - 1],
                              !.program = MarkExecuting(m.program, r.instr_pc,
                                                        r.exec_cycles_left - 1, m.cycle)]
               ELSE m,
               i + 1)

RECURSIVE ExecuteLSBLoop(_, _)
ExecuteLSBLoop(m, i) ==
    IF i >= lsb_size THEN m
    ELSE LET l == m.lsb[i]
         IN ExecuteLSBLoop(
               IF Counts(l)
               THEN [m EXCEPT !.lsb = [m.lsb EXCEPT ![i].exec_cycles_left = l.exec_cycles_left - 1],
                              !.program = MarkExecuting(m.program, l.instr_pc,
                                                        l.exec_cycles_left - 1, m.cycle)]
               ELSE m,
               i + 1)

execute_stage(m) == ExecuteLSBLoop(ExecuteRSLoop(m, 0), 0)

\* ------------------------------------------------------------------------
\* issue_stage
\* ------------------------------------------------------------------------
RECURSIVE FirstFree(_, _, _)
FirstFree(slots, i, n) ==
    IF i >= n THEN Nil
    ELSE IF ~slots[i].busy THEN i ELSE FirstFree(slots, i + 1, n)

find_free_rob_index(m) == FirstFree(m.rob, 0, rob_size)
find_free_rs_index(m) == FirstFree(m.rs, 0, rs_count)
find_free_lsb_index(m) == FirstFree(m.lsb, 0, lsb_size)

\* next((i for i in program if i.pc == self.pc and i.state == "NotFetched"), None)
RECURSIVE NextInstr(_, _, _)
\* fault variant: fetch takes the instruction at the PC whatever its state
NextInstrAnyState(prog, pc, k) == FirstAt(prog, pc, k)

NextInstr(prog, pc, k) ==
    IF k > Len(prog) THEN 0
    ELSE IF prog[k].pc = pc /\ prog[k].state = "NotFetched" THEN k
    ELSE NextInstr(prog, pc, k + 1)

AnyNotFetched(prog) == \E k \in DOMAIN prog : prog[k].state = "NotFetched"

IsMemOp(op) == op \in {"LW", "SW"}

\* lines 499-509
RobType(op) ==
    CASE op \in {"ADD", "SUB", "MUL", "DIV", "LW"} -> "REG"
      [] op = "SW" -> "STORE"
      [] op = "BEQ" -> "BRANCH"
      [] OTHER -> "REG"

RobDest(instr, old) ==
    CASE instr.op \in {"ADD", "SUB", "MUL", "DIV", "LW"} ->
            (IF instr.rd # Nil THEN instr.rd
             ELSE IF instr.op = "LW" THEN instr.rt ELSE Nil)
      [] instr.op \in {"SW", "BEQ"} -> Nil
      [] OTHER -> old

Predicted(m, pc) == IF pc \in DOMAIN m.predictor THEN m.predictor[pc] ELSE FALSE

\* lines 487-539: the ROB slot, the checkpoint, the speculation marks and
\* the next PC of the instruction at program index k, allocated to slot rob_idx
Allocate(m, k, rob_idx) ==
    LET instr == m.program[k]
        old == m.rob[rob_idx]
        isBeq == instr.op = "BEQ"
        cp_id == m.next_checkpoint_id
        seq2 == m.rob_enqueue_seq + 1
        inherit == ~isBeq /\ m.active_checkpoint_id # Nil
        ent == [old EXCEPT
                  !.busy = TRUE,
                  !.instr_pc = instr.pc,
                  !.ready = FALSE,
                  !.committed = FALSE,
                  !.enqueue_seq = m.rob_enqueue_seq,
                  !.type = RobType(instr.op),
                  !.dest = RobDest(instr, old.dest),
                  !.checkpoint_id = IF isBeq THEN cp_id
                                    ELSE IF inherit THEN m.active_checkpoint_id
                                    ELSE Nil,
                  !.speculative = isBeq \/ inherit]
    IN [m EXCEPT
          !.rob = [m.rob EXCEPT ![rob_idx] = ent],
          !.rob_enqueue_seq = seq2,
          !.next_checkpoint_id = IF isBeq THEN cp_id + 1 ELSE m.next_checkpoint_id,
          !.active_checkpoint_id = IF isBeq THEN cp_id ELSE m.active_checkpoint_id,
          !.checkpoints = IF isBeq
                          THEN MemSet(m.checkpoints, cp_id, Checkpoint(cp_id, m.RAT, seq2))
                          ELSE m.checkpoints,
          !.program = [m.program EXCEPT
                          ![k].speculative = IF isBeq \/ inherit THEN TRUE
                                             ELSE instr.speculative],
          !.pc = IF isBeq /\ Predicted(m, instr.pc) /\ instr.imm # None
                 THEN instr.imm[1]
                 ELSE m.pc + 4]

\* the (tag, value) a source register is captured as (lines 587-598, 615-626)
SourceTag(m, reg, oldQ) == IF reg # Nil /\ m.RAT[reg] # Nil THEN m.RAT[reg] ELSE oldQ
SourceVal(m, reg, oldV) ==
    IF reg # Nil /\ m.RAT[reg] = Nil THEN Some(m.register_file[reg]) ELSE oldV

\* lines 549-556: the effective address of a load or store at issue
IssueAddress(m, instr, old) ==
    IF instr.rs = Nil THEN old
    ELSE IF m.RAT[instr.rs] # Nil THEN None
    ELSE Some(m.register_file[instr.rs] + OrZero(instr.imm))

\* fault variant: the load and store latencies are taken from each other's
\* table entry
LsbLatencySwapped(op) == IF op = "LW" THEN latencies("SW") ELSE latencies("LW")

\* the execution cycles a load/store buffer entry is given at issue (line 577)
LsbLatency(op) == latencies("LW")

\* the execution cycles a reservation station is given at issue (lines 600, 628)
RsLatency(op) == IF op = "BEQ" THEN latencies("BEQ") ELSE latencies(op)

\* lines 542-578
DispatchLSB(m, k, rob_idx, free_lsb) ==
    LET instr == m.program[k]
        l0 == m.lsb[free_lsb]
        l1 == [l0 EXCEPT
                 !.busy = TRUE, !.op = instr.op, !.instr_pc = instr.pc,
                 !.rob_id = rob_idx,
                 !.address = IssueAddress(m, instr, l0.address),
                 !.Qt = IF instr.op = "SW" /\ instr.rt # Nil THEN m.RAT[instr.rt] ELSE l0.Qt,
                 !.Vt = IF instr.op = "SW" /\ instr.rt # Nil
                        THEN (IF m.RAT[instr.rt] # Nil THEN None
                              ELSE Some(m.register_file[instr.rt]))
                        ELSE l0.Vt,
                 !.exec_cycles_left = LsbLatency(instr.op)]
    IN [m EXCEPT
          !.lsb = [m.lsb EXCEPT ![free_lsb] = l1],
          !.rob = IF instr.op = "LW"
                  THEN [m.rob EXCEPT ![rob_idx].dest = instr.rt]
                  ELSE m.rob,
          !.RAT = IF instr.op = "LW" /\ instr.rt # Nil
                  THEN [m.RAT EXCEPT ![instr.rt] = rob_idx]
                  ELSE m.RAT,
          !.program = [m.program EXCEPT
                          ![k].lsb_id = free_lsb, ![k].rob_id = rob_idx,
                          ![k].state = "Issued", ![k].issue_cycle = m.cycle]]

\* lines 580-636 (the BEQ branch and the arithmetic branch)
DispatchRS(m, k, rob_idx, free_rs) ==
    LET instr == m.program[k]
        r0 == m.rs[free_rs]
        r1 == [r0 EXCEPT
                 !.busy = TRUE, !.op = instr.op, !.instr_pc = instr.pc,
                 !.rob_id = rob_idx,
                 !.Qj = SourceTag(m, instr.rs, r0.Qj),
                 !.Vj = SourceVal(m, instr.rs, r0.Vj),
                 !.Qk = SourceTag(m, instr.rt, r0.Qk),
                 !.Vk = SourceVal(m, instr.rt, r0.Vk),
                 !.exec_cycles_left = RsLatency(instr.op)]
        dest == m.rob[rob_idx].dest
    IN [m EXCEPT
          !.rs = [m.rs EXCEPT ![free_rs] = r1],
          !.RAT = IF instr.op # "BEQ" /\ dest # Nil
                  THEN [m.RAT EXCEPT ![dest] = rob_idx]
                  ELSE m.RAT,
          !.program = [m.program EXCEPT
                          ![k].rs_id = free_rs, ![k].rob_id = rob_idx,
                          ![k].state = "Issued", ![k].issue_cycle = m.cycle]]

\* a stall found after the ROB slot has been taken
StallKeepsRobSlot(m) ==
    LET i == find_free_rob_index(m)
    IN IF i = Nil THEN [m EXCEPT !.total_stalls = m.total_stalls + 1]
       ELSE [m EXCEPT !.total_stalls = m.total_stalls + 1,
                      !.rob[i].busy = TRUE,
                      !.rob[i].enqueue_seq = m.rob_enqueue_seq,
                      !.rob_enqueue_seq = m.rob_enqueue_seq + 1]

Stall(m) == [m EXCEPT !.total_stalls = m.total_stalls + 1]

\* one pass of "for _ in range(self.issue_width)"; n passes remain
RECURSIVE issue_loop(_, _)
issue_loop(m, n) ==
    IF n = 0 THEN m
    ELSE
      LET k == NextInstr(m.program, m.pc, 1)
      IN IF k = 0
         THEN IF AnyNotFetched(m.program)
              THEN issue_loop([m EXCEPT !.pc = m.pc + 4], n - 1)
              ELSE m
         ELSE
           LET free_rob_idx == find_free_rob_index(m)
               mem == IsMemOp(m.program[k].op)
               free_lsb == find_free_lsb_index(m)
               free_rs == find_free_rs_index(m)
           IN IF free_rob_idx = Nil THEN Stall(m)
              ELSE IF mem /\ free_lsb = Nil THEN Stall(m)
              ELSE IF ~mem /\ free_rs = Nil THEN Stall(m)
              ELSE LET m1 == Allocate(m, k, free_rob_idx)
                   IN issue_loop(IF mem THEN DispatchLSB(m1, k, free_rob_idx, free_lsb)
                                 ELSE DispatchRS(m1, k, free_rob_idx, free_rs),
                                 n - 1)

issue_stage(m) == issue_loop(m, issue_width)

\* ------------------------------------------------------------------------
\* resolve_branches
\* ------------------------------------------------------------------------
\* lines 682-689: the reset of a flushed load/store buffer entry
FlushLSB(l) ==
    [l EXCEPT !.busy = FALSE, !.op = "None", !.address = None, !.Vt = None,
              !.Qt = Nil, !.rob_id = Nil, !.instr_pc = Nil, !.exec_cycles_left = 0]

\* lines 691-699: the reset of a flushed ROB entry
FlushEntry(e) ==
    [e EXCEPT !.busy = FALSE, !.ready = FALSE, !.instr_pc = Nil, !.dest = Nil,
              !.value = None, !.type = "None", !.speculative = FALSE,
              !.enqueue_seq = Nil]

\* line 668: the entries a misprediction of entry i squashes
Squashed(m, i) == {j \in RobIds : m.rob[j].busy /\ m.rob[j].speculative /\ j # i}

\* a flush that resets the squashed ROB entries and leaves their stations
\* and buffer entries as they are
FlushSpeculativeRobOnly(m, i) ==
    LET S == Squashed(m, i)
    IN [m EXCEPT
          !.rob = [j \in RobIds |->
                    IF j \in S THEN FlushEntry(m.rob[j]) ELSE m.rob[j]]]

\* lines 667-699
FlushSpeculative(m, i) ==
    LET S == Squashed(m, i)
    IN [m EXCEPT
          !.rs = [a \in RsIds |->
                    IF m.rs[a].busy /\ m.rs[a].rob_id \in S
                    THEN FreeRS(m.rs[a]) ELSE m.rs[a]],
          !.lsb = [a \in LsbIds |->
                    IF m.lsb[a].busy /\ m.lsb[a].rob_id \in S
                    THEN FlushLSB(m.lsb[a]) ELSE m.lsb[a]],
          !.rob = [j \in RobIds |->
                    IF j \in S THEN FlushEntry(m.rob[j]) ELSE m.rob[j]]]

DictDel(d, key) == [k \in (DOMAIN d) \ {key} |-> d[k]]

\* "if cp_id and cp_id in self.checkpoints"
HasCheckpoint(m, cp_id) == cp_id # Nil /\ cp_id # 0 /\ cp_id \in DOMAIN m.checkpoints

\* fault variant: fetch resumes after the branch whatever its outcome
RedirectPCFallsThrough(m, instr_pc, actual) == instr_pc + 4

\* lines 705-714: where fetch resumes after a misprediction
RedirectPC(m, instr_pc, actual) ==
    LET k == FirstAt(m.program, instr_pc, 1)
        target_pc == IF k = 0 THEN None ELSE m.program[k].imm
    IN IF actual /\ target_pc # None THEN target_pc[1] ELSE instr_pc + 4

\* lines 718-722: which instructions a recovery marks Flushed
FlushMarked(ins) == ins.speculative

\* lines 701-724
Recover(m, cp_id, instr_pc, actual) ==
    IF ~HasCheckpoint(m, cp_id) THEN m
    ELSE [m EXCEPT
            !.RAT = m.checkpoints[cp_id].RAT,
            !.pc = RedirectPC(m, instr_pc, actual),
            !.program = [k \in DOMAIN m.program |->
                           IF FlushMarked(m.program[k])
                           THEN [m.program[k] EXCEPT !.state = "Flushed",
                                                     !.speculative = FALSE]
                           ELSE m.program[k]],
            !.checkpoints = DictDel(m.checkpoints, cp_id)]

\* lines 664-733
Mispredicted(m, i, instr_pc, actual) ==
    LET ent == m.rob[i]
        m1 == [m EXCEPT
                 !.branch_mispredictions = m.branch_mispredictions + 1,
                 !.wrong_path = m.wrong_path \cup
                     {m.rob[j].instr_pc : j \in {a \in RobIds :
                          m.rob[a].busy /\ SeqKey(m.rob[a]) > SeqKey(ent)}}]
    IN Recover(FlushSpeculative(m1, i), ent.checkpoint_id, instr_pc, actual)

\* fault variant: the squash of speculative entries runs for a rightly
\* predicted branch too
PredictedRightSquashes(m, i) ==
    LET f == FlushSpeculative(m, i)
        cp_id == f.rob[i].checkpoint_id
    IN [f EXCEPT
          !.checkpoints = IF HasCheckpoint(f, cp_id)
                          THEN DictDel(f.checkpoints, cp_id) ELSE f.checkpoints,
          !.rob = [j \in RobIds |->
                     IF j = i \/ f.rob[j].checkpoint_id = cp_id
                     THEN [f.rob[j] EXCEPT !.speculative = FALSE]
                     ELSE f.rob[j]],
          !.program = [k \in DOMAIN f.program |->
                         [f.program[k] EXCEPT !.speculative = FALSE]]]

\* lines 734-744
PredictedRight(m, i) ==
    LET cp_id == m.rob[i].checkpoint_id
    IN [m EXCEPT
          !.checkpoints = IF HasCheckpoint(m, cp_id)
                          THEN DictDel(m.checkpoints, cp_id) ELSE m.checkpoints,
          !.rob = [j \in RobIds |->
                     IF j = i \/ m.rob[j].checkpoint_id = cp_id
                     THEN [m.rob[j] EXCEPT !.speculative = FALSE]
                     ELSE m.rob[j]],
          !.program = [k \in DOMAIN m.program |->
                         [m.program[k] EXCEPT !.speculative = FALSE]]]

\* line 647: the ROB entries branch resolution acts on
Resolvable(ent) == ent.busy /\ ent.type = "BRANCH" /\ ent.ready

\* one iteration of "for ent in self.rob" (lines 646-752)
resolve_entry(m, i) ==
    LET ent == m.rob[i]
        instr_pc == ent.instr_pc
        predicted == Predicted(m, instr_pc)
        actual == IF ent.branch_taken = None THEN FALSE ELSE ent.branch_taken[1]
        m1 == [m EXCEPT !.predictor = MemSet(m.predictor, instr_pc, actual)]
    IN IF ~Resolvable(ent) \/ instr_pc = Nil THEN m
       ELSE [(IF predicted # actual
              THEN Mispredicted(m1, i, instr_pc, actual)
              ELSE PredictedRight(m1, i))
             EXCEPT !.active_checkpoint_id = Nil]

RECURSIVE resolve_loop(_, _)
resolve_loop(m, i) ==
    IF i >= rob_size THEN m ELSE resolve_loop(resolve_entry(m, i), i + 1)

resolve_branches(m) == resolve_loop(m, 0)

\* ------------------------------------------------------------------------
\* step: halt detection (lines 788-792)
\* ------------------------------------------------------------------------
Drained(m) ==
    /\ \A i \in RobIds : ~m.rob[i].busy
    /\ \A i \in RsIds : ~m.rs[i].busy
    /\ \A i \in LsbIds : ~m.lsb[i].busy

AllRetired(m) ==
    \A k \in DOMAIN m.program : m.program[k].state \in {"Committed", "Flushed", "NOP"}

\* a halt test that looks at the structures only
halt_check_structures_only(m) == IF Drained(m) THEN [m EXCEPT !.halted = TRUE] ELSE m

halt_check(m) == IF Drained(m) /\ AllRetired(m) THEN [m EXCEPT !.halted = TRUE] ELSE m

\* ------------------------------------------------------------------------
\* Programs and preloaded registers the machine is started on
\* ------------------------------------------------------------------------
NoPreload == [r \in {} |-> 0]
ArithOps == {"ADD", "SUB", "MUL", "DIV"}

\* S1 and its variants: the second instruction reads the first one's result
RawPair(op1, op2) == <<Arith(op1, 1, 2, 3), Arith(op2, 4, 1, 5)>>
RawPrograms ==
    {<<RawPair(op1, op2), pre>> :
        op1 \in ArithOps, op2 \in ArithOps,
        pre \in {(2 :> 5 @@ 3 :> 7 @@ 5 :> 1), (2 :> 9 @@ 3 :> 2 @@ 5 :> 3)}}

\* S2: a store followed by a load of the same address
StoreLoad == <<SW(2, 0, 3), LW(1, 0, 3)>>
StoreLoadPrograms ==
    {<<StoreLoad, (2 :> v @@ 3 :> a)>> : v \in {42, 7}, a \in {100, 0, 8}}

\* S3
DivZero == <<DIV(1, 2, 0)>>

\* a division by zero with an instruction behind it
DivZeroThen == <<DIV(1, 2, 0), ADD(3, 2, 2)>>

\* S4, S5 and variants: one branch behind the producer of its operand
S4 == <<ADD(1, 0, 0), BEQ(1, 2, 20), ADD(3, 4, 5)>>
S5 == <<ADD(1, 0, 0), BEQ(1, 0, 16), ADD(7, 4, 5), ADD(8, 4, 5), ADD(9, 4, 5)>>
OneBranch(rt, target) ==
    <<ADD(1, 0, 0), BEQ(1, rt, target), ADD(7, 4, 5), SW(4, 0, 5), ADD(9, 4, 5)>>
BranchPrograms ==
    {<<S4, (2 :> 5 @@ 4 :> 1 @@ 5 :> 2)>>, <<S5, (4 :> 1 @@ 5 :> 2)>>}
    \cup {<<OneBranch(rt, t), (2 :> 5 @@ 4 :> 1 @@ 5 :> 2)>> :
             rt \in {0, 2}, t \in {0, 8, 12, 16}}

\* a branch issued two instructions behind a producer, so that the producer
\* retires while the branch is in flight
LateBranch(t) == <<ADD(1, 2, 3), ADD(4, 2, 3), BEQ(0, 0, t), ADD(7, 4, 5), ADD(9, 1, 5)>>

\* two branches in flight at once
TwoBranches(r1, t) == <<BEQ(r1, 0, 12), BEQ(0, 0, t), SW(4, 0, 5), ADD(9, 4, 5)>>

\* a branch that waits in the ROB behind a long division
SlowHead(rt, t) == <<DIV(1, 4, 5), BEQ(0, rt, t), ADD(7, 4, 5), ADD(9, 4, 5)>>

\* loads and stores whose base or data register is renamed
RenamedBase == <<ADD(3, 4, 5), SW(4, 0, 3), LW(1, 0, 3)>>
SlowData == <<MUL(2, 4, 5), SW(2, 0, 3), LW(1, 0, 3), NOP>>

\* a slow instruction between two fast ones
MixedLatency == <<ADD(1, 4, 5), MUL(2, 4, 5), ADD(3, 4, 5)>>

\* more divisions than reservation stations
Divisions == [k \in 1 .. (DefaultRsCount + 1) |-> DIV(k, 4, 5)]

\* two writers of R1, the second behind a taken branch that skips it
RewrittenBehindBranch ==
    <<ADD(1, 2, 3), NOP, BEQ(0, 0, 16), ADD(1, 4, 5), ADD(9, 1, 5)>>

\* two writers of R1 in a row
WriteAfterWrite == <<ADD(1, 2, 3), ADD(1, 4, 5)>>

\* a branch that compares the result of the instruction before it (R2 op
\* R3) with R6
BranchOnResult(op) == <<Arith(op, 1, 2, 3), BEQ(1, 6, 12), ADD(7, 4, 5), ADD(9, 4, 5)>>

\* three branches in a row behind a long division: the first is not
\* taken, the second is taken over the third
ThreeBranches ==
    <<DIV(1, 4, 5), BEQ(4, 0, 20), BEQ(0, 0, 20), BEQ(0, 0, 20), ADD(7, 4, 5), ADD(9, 4, 5)>>

SpeculationPrograms ==
    {<<LateBranch(t), (2 :> 5 @@ 3 :> 7 @@ 5 :> 1)>> : t \in {12, 16}}
    \cup {<<ThreeBranches, (4 :> 6 @@ 5 :> 2)>>}
    \cup {<<BranchOnResult(op), (2 :> 5 @@ 6 :> r6 @@ 4 :> 1 @@ 5 :> 2)>> :
             op \in {"ADD", "MUL"}, r6 \in {5, 0}}
    \cup {<<RewrittenBehindBranch, (2 :> 5 @@ 3 :> 7 @@ 4 :> 1 @@ 5 :> 2)>>}
    \cup {<<TwoBranches(r1, t), (1 :> v @@ 4 :> 1 @@ 5 :> 2)>> :
             r1 \in {0, 1}, t \in {8, 12}, v \in {1}}
    \cup {<<SlowHead(rt, t), (2 :> 5 @@ 4 :> 6 @@ 5 :> 2)>> : rt \in {0, 2}, t \in {8, 12}}

OtherPrograms ==
    {<<DivZero, (2 :> 5)>>, <<DivZero, NoPreload>>,
     <<DivZeroThen, (1 :> 9 @@ 2 :> 5)>>,
     <<RenamedBase, (4 :> 1 @@ 5 :> 2)>>,
     <<SlowData, (3 :> 100 @@ 4 :> 6 @@ 5 :> 7)>>,
     <<MixedLatency, (4 :> 6 @@ 5 :> 2)>>,
     <<WriteAfterWrite, (2 :> 5 @@ 3 :> 7 @@ 4 :> 1 @@ 5 :> 2)>>,
     <<Divisions, (4 :> 6 @@ 5 :> 2)>>}

Programs ==
    RawPrograms \cup StoreLoadPrograms \cup BranchPrograms
    \cup SpeculationPrograms \cup OtherPrograms

\* programs that fill a machine of one or two ROB slots, stations and buffer
\* entries: arithmetic and memory instructions in a row, and a branch with
\* instructions behind it
StallMix == <<ADD(1, 4, 5), SW(1, 0, 3), LW(2, 0, 3), ADD(6, 4, 5)>>
StallBranch(rs, t) == <<BEQ(rs, 0, t), ADD(7, 4, 5), ADD(8, 4, 5), LW(9, 0, 3)>>
StallPrograms ==
    {<<StallMix, (3 :> 100 @@ 4 :> 1 @@ 5 :> 2)>>}
    \cup {<<StallBranch(rs, t), (1 :> 1 @@ 4 :> 1 @@ 5 :> 2)>> :
             rs \in {0, 1}, t \in {4, 8, 12}}
\* the default machine filled by divisions, with a taken branch in the last
\* free station and two instructions behind it
FullThenBranch ==
    [k \in 1 .. (DefaultRsCount - 1) |-> DIV(k, 4, 5)]
    \o <<BEQ(0, 0, 4 * DefaultRsCount + 4), ADD(10, 4, 5), ADD(11, 4, 5)>>
SmallSizes == (1 .. MaxSize) \X (1 .. MaxSize) \X (1 .. MaxSize)

\* S6: NumAdds mutually independent additions
IndependentAdds == [k \in 1 .. NumAdds |-> ADD(k, 0, 0)]

\* ------------------------------------------------------------------------
\* State machine
\* ------------------------------------------------------------------------
vars == <<sim, stage>>

Init ==
    /\ sim \in {NewSim(p[1], Preload(p[2])) : p \in Programs}
    /\ stage = "commit"

\* step() on a halted machine returns {} at once (lines 755-756)
StepHalted ==
    /\ stage = "commit"
    /\ sim.halted
    /\ UNCHANGED vars

\* lines 758-765: a new cycle starts and commit_stage runs
CommitStage ==
    /\ stage = "commit"
    /\ ~sim.halted
    /\ sim.cycle < MaxCycle
    /\ sim' = commit_stage([sim EXCEPT !.cycle = sim.cycle + 1])
    /\ stage' = "write_result"

\* line 766
WriteResultStage ==
    /\ stage = "write_result"
    /\ sim' = write_result_stage(sim)
    /\ stage' = "branch_ready"

\* lines 768-782
BranchReadyScan ==
    /\ stage = "branch_ready"
    /\ sim' = branch_ready_scan(sim)
    /\ stage' = "resolve_branches"

\* line 784
ResolveBranches ==
    /\ stage = "resolve_branches"
    /\ sim' = resolve_branches(sim)
    /\ stage' = "execute"

\* an execute stage followed at once by the write-back of the stations it
\* has just counted down to 0
ExecuteStageWritesBack ==
    /\ stage = "execute"
    /\ sim' \in {write_result_stage(x) : x \in {y \in {execute_stage(sim)} : y = y}}
    /\ stage' = "issue"

\* an execute stage that is left out in some cycles
ExecuteStageMaySkip ==
    /\ stage = "execute"
    /\ sim' \in {execute_stage(sim), sim}
    /\ stage' = "issue"

\* line 785
ExecuteStage ==
    /\ stage = "execute"
    /\ sim' = execute_stage(sim)
    /\ stage' = "issue"

\* lines 786-792: issue_stage, then halt detection; step() returns
IssueStage ==
    /\ stage = "issue"
    /\ sim' = halt_check(issue_stage(sim))
    /\ stage' = "commit"

Next ==
    \/ StepHalted
    \/ CommitStage
    \/ WriteResultStage
    \/ BranchReadyScan
    \/ ResolveBranches
    \/ ExecuteStage
    \/ IssueStage

Spec == Init /\ [][Next]_vars

\* the machine started on S6
InitS6 ==
    /\ sim = NewSim(IndependentAdds, Preload(NoPreload))
    /\ stage = "commit"

SpecS6 == InitS6 /\ [][Next]_vars

\* the machine built with small structure sizes, or with the default sizes
\* on the programs of Spec
InitSized ==
    /\ sim \in {NewSimSized(p[1], Preload(p[2]), c[1], c[2], c[3]) :
                   p \in StallPrograms, c \in SmallSizes}
               \cup {NewSim(p[1], Preload(p[2])) : p \in Programs}
               \cup {NewSim(FullThenBranch, Preload((4 :> 6 @@ 5 :> 2)))}
    /\ stage = "commit"

\* Programs without a branch, and the specification of a caller that keeps
\* calling step(): the GUI's run loop and "Step" button call step() again
\* as long as the machine has not halted, so a step that can be taken is
\* eventually taken.
BranchFreePrograms ==
    RawPrograms \cup StoreLoadPrograms \cup OtherPrograms
    \cup {<<IndependentAdds, NoPreload>>}

InitBranchFree ==
    /\ sim \in {NewSim(p[1], Preload(p[2])) : p \in BranchFreePrograms}
    /\ stage = "commit"

\* run_loop (lines 1114-1119) calls step() again until halted is set, and
\* step() runs its stages one after the other without waiting: a machine
\* that is not halted eventually moves on to its next stage.  MaxCycle is
\* where the model stops following a run.
Stages == {"commit", "write_result", "branch_ready", "resolve_branches", "execute", "issue"}
Running == ~sim.halted /\ (stage = "commit" => sim.cycle < MaxCycle)
StepOn == Running /\ stage' \in Stages

FairBranchFree == InitBranchFree /\ [][Next]_vars /\ WF_stage(StepOn)
FairSized == InitSized /\ [][Next]_vars /\ WF_stage(StepOn)

\* ------------------------------------------------------------------------
\* Properties
\* ------------------------------------------------------------------------
Static(ins) == [op |-> ins.op, rd |-> ins.rd, rs |-> ins.rs, rt |-> ins.rt, imm |-> ins.imm]
\* the program the machine was loaded with
Lines(m) == [k \in DOMAIN m.program |-> Static(m.program[k])]
Reg(n) == sim.register_file[n]
Mem(a) == MemGet(sim.memory, Some(a))
StateAt(pc) == sim.program[(pc \div 4) + 1].state
BusyCount(slots) == Cardinality({i \in DOMAIN slots : slots[i].busy})

\* C1: in the Write-Result stage a reservation station or load/store buffer
\* entry is freed (publishes its result or branch outcome) only if it is
\* busy, has 0 remaining cycles and all of its operand tags are null.
C1_WriteBackNeedsOperands ==
    [][stage = "write_result" =>
        /\ \A i \in RsIds :
              (sim.rs[i].busy /\ ~sim'.rs[i].busy) =>
                  /\ sim.rs[i].exec_cycles_left = 0
                  /\ sim.rs[i].Qj = Nil
                  /\ sim.rs[i].Qk = Nil
        /\ \A i \in LsbIds :
              (sim.lsb[i].busy /\ ~sim'.lsb[i].busy) =>
                  /\ sim.lsb[i].exec_cycles_left = 0
                  /\ sim.lsb[i].Qt = Nil]_vars

\* C2: after every step(), every non-null RAT tag names a ROB slot that is
\* busy and of type REG, and the number of RAT tags does not exceed the
\* number of busy REG entries.
RatTags == {sim.RAT[r] : r \in {x \in Regs : sim.RAT[x] # Nil}}
C2_RatTagsAreBusyRegEntries ==
    stage = "commit" =>
        /\ \A t \in RatTags : sim.rob[t].busy /\ sim.rob[t].type = "REG"
        /\ Cardinality(RatTags)
              <= Cardinality({i \in RobIds : sim.rob[i].busy /\ sim.rob[i].type = "REG"})

\* C3: commit is in order: an entry leaves the ROB in the Commit stage only
\* if it is ready and no busy entry has a smaller enqueue sequence; a
\* not-ready oldest entry keeps every entry in the ROB that cycle; and the
\* enqueue sequences retired over the run are strictly ascending.
RECURSIVE Ascending(_)
Ascending(s) ==
    IF Len(s) <= 1 THEN TRUE
    ELSE s[1] < s[2] /\ Ascending(Tail(s))

OldestBusy(rob) ==
    {i \in RobIds : rob[i].busy /\
        \A j \in RobIds : rob[j].busy => rob[i].enqueue_seq <= rob[j].enqueue_seq}

C3_CommitInOrder ==
    [][stage = "commit" =>
        /\ \A i \in RobIds :
              (sim.rob[i].busy /\ ~sim'.rob[i].busy) =>
                  /\ sim.rob[i].ready
                  /\ i \in OldestBusy(sim.rob)
        /\ (\E i \in OldestBusy(sim.rob) : ~sim.rob[i].ready) =>
              \A j \in RobIds : sim.rob[j].busy => sim'.rob[j].busy
        /\ Ascending(sim'.commit_trace)]_vars

\* a younger ready entry waits behind a not-ready oldest entry, after an
\* earlier entry has been retired
C3_Witness ==
    /\ stage = "write_result"
    /\ Len(sim.commit_trace) >= 1
    /\ \E i, j \in RobIds :
          /\ sim.rob[i].busy /\ sim.rob[j].busy
          /\ i \in OldestBusy(sim.rob)
          /\ ~sim.rob[i].ready
          /\ sim.rob[j].ready

\* C4: the register file and memory change only in the Commit stage, and
\* memory changes only by the (address, data) of the STORE entry retired.
C4_ArchitecturalStateOnlyAtCommit ==
    [][/\ stage # "commit" =>
             /\ sim'.register_file = sim.register_file
             /\ sim'.memory = sim.memory
       /\ sim'.memory # sim.memory =>
             \E i \in RobIds :
                 /\ sim.rob[i].busy /\ ~sim'.rob[i].busy
                 /\ sim.rob[i].type = "STORE"
                 /\ sim'.memory = MemSet(sim.memory, sim.rob[i].value[1], sim.rob[i].value[2])
       ]_vars

\* a store has reached memory and a register has been written, with results
\* still in flight
C4_Witness ==
    /\ sim.memory # EmptyDict
    /\ \E i \in RobIds : sim.rob[i].busy /\ sim.rob[i].ready /\ sim.rob[i].type = "REG"
    /\ sim.committed_count >= 2

\* C5: an instruction that was in flight behind a branch when that branch
\* resolved as mispredicted never becomes Committed, and holds no ROB, RS or
\* LSB slot once branch resolution is over.
C5_NoWrongPathCommit ==
    \A pc \in sim.wrong_path :
        /\ StateAt(pc) # "Committed"
        /\ stage \in {"execute", "issue"} =>
              /\ \A i \in RobIds : ~(sim.rob[i].busy /\ sim.rob[i].instr_pc = pc)
              /\ \A i \in RsIds : ~(sim.rs[i].busy /\ sim.rs[i].instr_pc = pc)
              /\ \A i \in LsbIds : ~(sim.lsb[i].busy /\ sim.lsb[i].instr_pc = pc)

\* C6: for a two-instruction program whose second instruction reads the
\* destination of the first (both arithmetic), at halt both destinations
\* hold the program-order results.
ArithResult(op, a, b) ==
    CASE op = "ADD" -> a + b
      [] op = "SUB" -> a - b
      [] op = "MUL" -> a * b
      [] op = "DIV" -> (IF b # 0 THEN FloorDiv(a, b) ELSE 0)

C6_RawForwarding ==
    \A op1 \in ArithOps, op2 \in ArithOps :
        (sim.halted /\ Lines(sim) = RawPair(op1, op2)) =>
            /\ Reg(1) = ArithResult(op1, Reg(2), Reg(3))
            /\ Reg(4) = ArithResult(op2, ArithResult(op1, Reg(2), Reg(3)), Reg(5))
            /\ sim.committed_count = 2
            /\ sim.branch_mispredictions = 0

\* C7: in S5, once the branch has been retired and the target instruction
\* has committed with nothing left in flight, the instructions at PC 8 and
\* PC 12 are Flushed, one misprediction is counted, and R7 and R8 hold
\* their pre-run values.
C7_S5SkippedAreFlushed ==
    (/\ Lines(sim) = S5
     /\ stage = "commit"
     /\ Drained(sim)
     /\ StateAt(4) = "Committed"
     /\ StateAt(16) = "Committed") =>
        /\ StateAt(8) = "Flushed"
        /\ StateAt(12) = "Flushed"
        /\ sim.branch_mispredictions = 1
        /\ Reg(7) = 0
        /\ Reg(8) = 0

\* C8: a branch-resolution stage in which every resolved branch was
\* predicted right flushes nothing: instruction states, ROB/RS/LSB
\* occupancy, RAT, PC and the misprediction counter are untouched; the
\* speculative flag is cleared on each resolved branch entry and on every
\* ROB entry sharing its checkpoint id; its checkpoint is discarded.  In
\* S4 the machine halts with R1 = 0, R3 = 3, all three instructions
\* committed and no misprediction.
ResolvedNow(m) == {i \in RobIds : Resolvable(m.rob[i])}
RightlyPredicted(m, i) ==
    Predicted(m, m.rob[i].instr_pc)
        = (IF m.rob[i].branch_taken = None THEN FALSE ELSE m.rob[i].branch_taken[1])

C8_CorrectPredictionFlushesNothing ==
    [][/\ (/\ stage = "resolve_branches"
           /\ ResolvedNow(sim) # {}
           /\ \A i \in ResolvedNow(sim) : RightlyPredicted(sim, i)) =>
              /\ \A k \in DOMAIN sim.program : sim'.program[k].state = sim.program[k].state
              /\ \A i \in RobIds : sim'.rob[i].busy = sim.rob[i].busy
              /\ sim'.rs = sim.rs
              /\ sim'.lsb = sim.lsb
              /\ sim'.RAT = sim.RAT
              /\ sim'.pc = sim.pc
              /\ sim'.branch_mispredictions = sim.branch_mispredictions
              /\ \A i \in ResolvedNow(sim) :
                    /\ ~sim'.rob[i].speculative
                    /\ sim.rob[i].checkpoint_id \notin DOMAIN sim'.checkpoints
                    /\ \A j \in RobIds :
                          sim.rob[j].checkpoint_id = sim.rob[i].checkpoint_id
                              => ~sim'.rob[j].speculative
       /\ (Lines(sim') = S4 /\ sim'.halted) =>
              /\ sim'.register_file[1] = 0
              /\ sim'.register_file[3] = 3
              /\ sim'.branch_mispredictions = 0
              /\ \A k \in DOMAIN sim'.program : sim'.program[k].state = "Committed"
       ]_vars

\* S4 has halted after its branch was resolved as predicted
C8_Witness ==
    /\ Lines(sim) = S4
    /\ sim.halted
    /\ 4 \in DOMAIN sim.predictor
    /\ sim.checkpoints = EmptyDict
    /\ Reg(3) = 3

\* C9: the program "SW R2, 0(R3); LW R1, 0(R3)" halts with memory[a] = v
\* and R1 = v, where v and a are the preloaded values of R2 and R3.
C9_StoreThenLoad ==
    (Lines(sim) = StoreLoad /\ sim.halted) =>
        /\ MemGet(sim.memory, Some(Reg(3))) = Reg(2)
        /\ Reg(1) = Reg(2)
        /\ \A k \in DOMAIN sim.program : sim.program[k].state = "Committed"

\* the instance of S2 has halted
C9_Witness ==
    /\ Lines(sim) = StoreLoad
    /\ sim.halted
    /\ Reg(2) = 42
    /\ Reg(3) = 100
    /\ Mem(100) = 42
    /\ Reg(1) = 42

\* C10 as stated: S6 ends with a positive stall count.
C10_S6Stalls == sim.halted => sim.total_stalls > 0

\* C10 as amended: in S6 no cycle increments the stall counter; never more
\* than 4 ROB entries or 3 reservation stations are busy, and the machine
\* halts with total_stalls = 0.
C10_S6NeverStalls ==
    /\ sim.total_stalls = 0
    /\ BusyCount(sim.rob) <= 4
    /\ BusyCount(sim.rs) <= 3

\* S6 has run to its end
C10_Witness ==
    /\ sim.halted
    /\ Len(sim.program) = NumAdds
    /\ sim.committed_count = NumAdds
    /\ sim.total_stalls = 0

\* ------------------------------------------------------------------------
\* C11: every branch-free program (the 20 independent additions of S6 among
\* them) is run to completion by repeated step() calls: eventually every
\* instruction is Committed, committed_count equals the program length and
\* halted is set.
\* ------------------------------------------------------------------------
Completed ==
    /\ sim.halted
    /\ sim.committed_count = Len(sim.program)
    /\ \A k \in DOMAIN sim.program : sim.program[k].state = "Committed"

C11_BranchFreeCompletes == <>Completed

\* the program with more divisions than stations has stalled and completed
C11_Witness ==
    /\ Lines(sim) = Divisions
    /\ sim.total_stalls > 0
    /\ Completed

\* ------------------------------------------------------------------------
\* C12: a stalled issue is not a deadlock.
\* ------------------------------------------------------------------------
ProgramIndexes == 1 .. NumAdds

\* the issue stage is about to stall on the instruction at program index k:
\* it is the next instruction and the ROB, or the structure of its kind, is
\* full
Blocked(k) ==
    /\ stage = "issue"
    /\ k = NextInstr(sim.program, sim.pc, 1)
    /\ k # 0
    /\ IF find_free_rob_index(sim) = Nil THEN TRUE
       ELSE IF IsMemOp(sim.program[k].op) THEN find_free_lsb_index(sim) = Nil
       ELSE find_free_rs_index(sim) = Nil

Issued(k) == k \in DOMAIN sim.program /\ sim.program[k].state # "NotFetched"

\* the PC no longer points at the instruction at index k
PcMovedFrom(k) == k \in DOMAIN sim.program /\ sim.pc # sim.program[k].pc

C12_DefaultSizes ==
    [](Lines(sim) = FullThenBranch => (Blocked(DefaultRsCount + 1) ~> Issued(DefaultRsCount + 1)))

UnresolvedBranches ==
    {i \in RobIds : sim.rob[i].busy /\ sim.rob[i].type = "BRANCH" /\ ~sim.rob[i].ready}

C13_OneBranchInFlight ==
    stage = "commit" =>
        /\ Cardinality(DOMAIN sim.checkpoints) <= 1
        /\ Cardinality(UnresolvedBranches) <= 1

\* ------------------------------------------------------------------------
\* C14: between two steps, the owning ROB id of every busy reservation
\* station and of every busy load/store buffer entry names a busy ROB slot
\* that holds the same instruction (the same PC).
\* ------------------------------------------------------------------------
OwnerIsLive(st) ==
    st.busy =>
        /\ st.rob_id \in RobIds
        /\ sim.rob[st.rob_id].busy
        /\ sim.rob[st.rob_id].instr_pc = st.instr_pc

C14_StationOwnersAreLive ==
    stage = "commit" =>
        /\ \A i \in RsIds : OwnerIsLive(sim.rs[i])
        /\ \A i \in LsbIds : OwnerIsLive(sim.lsb[i])

\* a misprediction has squashed an instruction, and a station is in use
C14_Witness ==
    /\ stage = "commit"
    /\ sim.branch_mispredictions > 0
    /\ \E k \in DOMAIN sim.program : sim.program[k].state = "Flushed"
    /\ \E i \in RsIds : sim.rs[i].busy
    /\ \E i \in LsbIds : sim.lsb[i].busy

\* ------------------------------------------------------------------------
\* C15: a ROB entry leaves the ROB either in a flush or in a commit that
\* updates the architectural state its type calls for: a REG entry with a
\* destination writes its value into the register file, a STORE entry
\* writes its value to memory at its address.
\* ------------------------------------------------------------------------
Leaves(i) == sim.rob[i].busy /\ ~sim'.rob[i].busy

CommitUpdates(i) ==
    LET ent == sim.rob[i]
    IN /\ (ent.type = "REG" /\ ent.dest # Nil)
            => sim'.register_file[ent.dest] = OrZero(ent.value)
       /\ ent.type = "STORE"
            => /\ Len(ent.value) = 2
               /\ ent.value[1] \in DOMAIN sim'.memory
               /\ sim'.memory[ent.value[1]] = ent.value[2]

C15_LeavingEntryUpdatesState ==
    [][\A i \in RobIds :
          Leaves(i) => IF stage = "commit" THEN CommitUpdates(i)
                       ELSE stage = "resolve_branches"]_vars

\* C15 in its consequence: when the program with two writers of R1 has
\* halted with the second writer flushed, R1 holds the first writer's sum.
C15_CommittedWriteIsKept ==
    (sim.halted /\ Lines(sim) = RewrittenBehindBranch)
        => Reg(1) = Reg(2) + Reg(3)

\* ------------------------------------------------------------------------
\* C16: Flushed is terminal: an instruction whose state is Flushed (the BEQ
\* itself included) keeps that state in every later step, and so is never
\* issued again.
\* ------------------------------------------------------------------------
C16_FlushedIsTerminal ==
    [][\A k \in DOMAIN sim.program :
          sim.program[k].state = "Flushed" => sim'.program[k].state = "Flushed"]_vars

\* ------------------------------------------------------------------------
\* C17: a BEQ resolved as correctly predicted leaves no ROB entry tagged
\* with its checkpoint id speculative, and once a BEQ's ROB entry has
\* committed neither that ROB slot nor the BEQ instruction is speculative.
\* ------------------------------------------------------------------------
ClearedOnResolve(i) ==
    (/\ RightlyPredicted(sim, i)
     /\ \A j \in ResolvedNow(sim) \ {i} : sim.rob[j].instr_pc # sim.rob[i].instr_pc)
    => \A j \in RobIds :
          sim'.rob[j].checkpoint_id = sim.rob[i].checkpoint_id
              => ~sim'.rob[j].speculative

ClearedOnCommit(i) ==
    (Leaves(i) /\ sim.rob[i].type = "BRANCH")
    => /\ ~sim'.rob[i].speculative
       /\ \A k \in DOMAIN sim.program :
             sim.program[k].pc = sim.rob[i].instr_pc => ~sim'.program[k].speculative

C17_SpeculativeFlagsClear ==
    [][/\ stage = "resolve_branches" => \A i \in ResolvedNow(sim) : ClearedOnResolve(i)
       /\ stage = "commit" => \A i \in RobIds : ClearedOnCommit(i)]_vars

\* the first half of C17 on its own
C17_ClearedOnResolve ==
    [][stage = "resolve_branches" => \A i \in ResolvedNow(sim) : ClearedOnResolve(i)]_vars

\* ------------------------------------------------------------------------
\* C18: a step taken on a halted machine changes nothing, so halted stays
\* set for ever; and halted is set only by a step that leaves the ROB, the
\* reservation stations and the load/store buffer empty and every
\* instruction Committed or Flushed.
\* ------------------------------------------------------------------------
AllEmpty(m) ==
    /\ \A i \in DOMAIN m.rob : ~m.rob[i].busy
    /\ \A i \in DOMAIN m.rs : ~m.rs[i].busy
    /\ \A i \in DOMAIN m.lsb : ~m.lsb[i].busy

C18_HaltedIsFinal ==
    [][/\ sim.halted => (sim' = sim /\ stage' = stage)
       /\ (~sim.halted /\ sim'.halted) =>
             /\ AllEmpty(sim')
             /\ \A k \in DOMAIN sim'.program :
                   sim'.program[k].state \in {"Committed", "Flushed"}]_vars

\* a machine that squashed an instruction has halted
C18_Witness ==
    /\ sim.halted
    /\ stage = "commit"
    /\ \E k \in DOMAIN sim.program : sim.program[k].state = "Flushed"
    /\ \E k \in DOMAIN sim.program : sim.program[k].state = "Committed"

\* ------------------------------------------------------------------------
\* C19: the entry an instruction is issued to starts with as many execution
\* cycles left as the latency table gives for the instruction's own opcode
\* (ADD 2, SUB 2, MUL 4, DIV 8, LW 3, SW 2, BEQ 1, NOP 1).
\* ------------------------------------------------------------------------
IssuedTo(old, new) == ~old.busy /\ new.busy

C19_LatencyOfOwnOpcode ==
    [][stage = "issue" =>
          /\ \A i \in RsIds :
                IssuedTo(sim.rs[i], sim'.rs[i])
                    => sim'.rs[i].exec_cycles_left = latencies(sim'.rs[i].op)
          /\ \A i \in LsbIds :
                IssuedTo(sim.lsb[i], sim'.lsb[i])
                    => sim'.lsb[i].exec_cycles_left = latencies(sim'.lsb[i].op)]_vars

\* C19 without the stores
C19_LatencyExceptStores ==
    [][stage = "issue" =>
          /\ \A i \in RsIds :
                IssuedTo(sim.rs[i], sim'.rs[i])
                    => sim'.rs[i].exec_cycles_left = latencies(sim'.rs[i].op)
          /\ \A i \in LsbIds :
                (IssuedTo(sim.lsb[i], sim'.lsb[i]) /\ sim'.lsb[i].op # "SW")
                    => sim'.lsb[i].exec_cycles_left = latencies(sim'.lsb[i].op)]_vars

\* ------------------------------------------------------------------------
\* C20: a DIV whose divisor operand is 0 writes back 0; the run goes on,
\* the DIV commits and its destination register ends at 0 (S3:
\* DIV R1, R2, R0 leaves R1 = 0).
\* ------------------------------------------------------------------------
DividesByZero(r) == RSWritesBack(r) /\ r.op = "DIV" /\ OrZero(r.Vk) = 0

DivZeroRun == Lines(sim) \in {DivZero, DivZeroThen}

C20_DivisionByZeroYieldsZero ==
    /\ [][stage = "write_result" =>
             \A i \in RsIds :
                 DividesByZero(sim.rs[i]) =>
                     /\ sim'.rob[sim.rs[i].rob_id].ready
                     /\ sim'.rob[sim.rs[i].rob_id].value = Some(0)]_vars
    /\ [](DivZeroRun /\ sim.halted =>
             /\ Reg(1) = 0
             /\ \A k \in DOMAIN sim.program : sim.program[k].state = "Committed"
             /\ sim.committed_count = Len(sim.program))
    /\ (DivZeroRun ~> sim.halted)

\* S3 has halted with R2 = 5 divided by R0 = 0
C20_Witness ==
    /\ Lines(sim) = DivZero
    /\ sim.halted
    /\ Reg(2) = 5
    /\ Reg(0) = 0
    /\ Reg(1) = 0
    /\ sim.program[1].state = "Committed"

\* ------------------------------------------------------------------------
\* C21: deterministic replay.  A second simulator built from the same
\* program, preloaded registers and sizes, and stepped as many times, is in
\* the state of the first after every step(); and every state has exactly
\* one successor, the one the stage about to run computes.
\* ------------------------------------------------------------------------
\* one whole call of step() (lines 754-801): the stages are applied one
\* after the other, each to the machine the stage before it has left (the
\* machine is carried from stage to stage as a one-element set)
step(m) ==
    IF m.halted THEN {m}
    ELSE LET committed == {commit_stage([m EXCEPT !.cycle = m.cycle + 1])}
             written == {write_result_stage(x) : x \in committed}
             scanned == {branch_ready_scan(x) : x \in written}
             resolved == {resolve_branches(x) : x \in scanned}
             executed == {execute_stage(x) : x \in resolved}
             issued == {issue_stage(x) : x \in executed}
         IN {halt_check(x) : x \in issued}

\* the machines of S with every field evaluated: TLC keeps a function it
\* has built as its defining expression until the function is compared
Evaluated(S) == {m \in S : m = m}

\* the machines of S after n calls of step() on each
RECURSIVE Replay(_, _)
Replay(S, n) ==
    IF n = 0 THEN S ELSE Replay(Evaluated(UNION {step(m) : m \in S}), n - 1)

\* the machines that were loaded with the program and sizes of sim
SameLoad ==
    {NewSimSized(p[1], Preload(p[2]), rob_size, rs_count, lsb_size) :
        p \in {q \in Programs \cup StallPrograms
                        \cup {<<FullThenBranch, (4 :> 6 @@ 5 :> 2)>>} : q[1] = Lines(sim)}}

\* the one successor of the current state
Successor ==
    CASE stage = "commit" ->
            IF sim.halted THEN <<sim, stage>>
            ELSE <<commit_stage([sim EXCEPT !.cycle = sim.cycle + 1]), "write_result">>
      [] stage = "write_result" -> <<write_result_stage(sim), "branch_ready">>
      [] stage = "branch_ready" -> <<branch_ready_scan(sim), "resolve_branches">>
      [] stage = "resolve_branches" -> <<resolve_branches(sim), "execute">>
      [] stage = "execute" -> <<execute_stage(sim), "issue">>
      [] stage = "issue" -> <<halt_check(issue_stage(sim)), "commit">>

WaitsForOperand(r) == r.busy /\ (r.Qj # Nil \/ r.Qk # Nil)
WaitsForData(l) == l.busy /\ l.Qt # Nil

C22_ExecuteWaitsForOperands ==
    [][stage = "execute" =>
          /\ \A i \in RsIds :
                WaitsForOperand(sim.rs[i])
                    => sim'.rs[i].exec_cycles_left = sim.rs[i].exec_cycles_left
          /\ \A i \in LsbIds :
                WaitsForData(sim.lsb[i])
                    => sim'.lsb[i].exec_cycles_left = sim.lsb[i].exec_cycles_left]_vars

\* ------------------------------------------------------------------------
\* C23: the outcome recorded for a BEQ is the equality of the program-order
\* values of its two source registers.  In a program whose first
\* instruction is arithmetic and whose second is a BEQ that reads the
\* first one's destination, the outcome is the equality of the first
\* one's result and the BEQ's other register (ADD R1, R2, R0 ;
\* BEQ R1, R2, T with R2 = 5 is taken).
\* ------------------------------------------------------------------------
BranchReadsFirst ==
    /\ Len(sim.program) >= 2
    /\ sim.program[1].op \in ArithOps
    /\ sim.program[2].op = "BEQ"
    /\ sim.program[2].rs = sim.program[1].rd
    /\ sim.program[2].rt # sim.program[1].rd

ProgramOrderOutcome ==
    ArithResult(sim.program[1].op, Reg(sim.program[1].rs), Reg(sim.program[1].rt))
        = Reg(sim.program[2].rt)

C23_BranchOutcomeFromProducer ==
    BranchReadsFirst =>
        \A i \in RobIds :
            (/\ sim.rob[i].busy
             /\ sim.rob[i].type = "BRANCH"
             /\ sim.rob[i].ready
             /\ sim.rob[i].instr_pc = sim.program[2].pc)
            => sim.rob[i].branch_taken = Some(ProgramOrderOutcome)

\* ------------------------------------------------------------------------
\* C24: for every instruction that has committed, issue cycle < cycle in
\* which execution ended < write-back cycle < commit cycle; so a station
\* whose counter reaches 0 in cycle c writes back in cycle c+1 at the
\* earliest, and a value written back in cycle c commits in cycle c+1 at
\* the earliest.
\* ------------------------------------------------------------------------
StagesInOrder(ins) ==
    /\ ins.issue_cycle # Nil
    /\ ins.exec_end # Nil
    /\ ins.wb_cycle # Nil
    /\ ins.commit_cycle # Nil
    /\ ins.issue_cycle < ins.exec_end
    /\ ins.exec_end < ins.wb_cycle
    /\ ins.wb_cycle < ins.commit_cycle

C24_StageTiming ==
    \A k \in DOMAIN sim.program :
        sim.program[k].state = "Committed" => StagesInOrder(sim.program[k])

\* one instruction has committed in the cycle after its write-back and
\* another has waited longer in the ROB
C24_Witness ==
    /\ sim.halted
    /\ \E k \in DOMAIN sim.program :
          /\ sim.program[k].state = "Committed"
          /\ sim.program[k].commit_cycle = sim.program[k].wb_cycle + 1
    /\ \E k \in DOMAIN sim.program :
          /\ sim.program[k].state = "Committed"
          /\ sim.program[k].commit_cycle > sim.program[k].wb_cycle + 1

\* ------------------------------------------------------------------------
\* C25: an issue stage that finds the ROB, or the structure the next
\* instruction needs, full adds exactly 1 to the stall counter and changes
\* nothing else: ROB, RS, LSB, RAT, checkpoints, PC, enqueue sequence and
\* the instruction (still NotFetched) are as before, and nothing is issued.
\* ------------------------------------------------------------------------
C25_StallAllocatesNothing ==
    [][(stage = "issue" /\ \E k \in ProgramIndexes : Blocked(k)) =>
          sim' = [sim EXCEPT !.total_stalls = sim.total_stalls + 1]]_vars

\* after a stall on the load/store buffer: the ROB has a free slot, the
\* buffer is full and the memory instruction at the PC is still NotFetched
C25_Witness ==
    /\ stage = "commit"
    /\ sim.total_stalls > 0
    /\ find_free_rob_index(sim) # Nil
    /\ find_free_lsb_index(sim) = Nil
    /\ \E k \in DOMAIN sim.program :
          /\ k = NextInstr(sim.program, sim.pc, 1)
          /\ IsMemOp(sim.program[k].op)

\* ------------------------------------------------------------------------
\* C26: the entry an instruction is issued to holds, for every source
\* register, the RAT tag if the register is renamed and the register-file
\* value otherwise, never both and never neither; and a load or store
\* reaches write-back with its effective address resolved, also when its
\* base register was renamed at issue.
\* ------------------------------------------------------------------------
Captured(reg, Q, V) ==
    reg # Nil =>
        IF sim.RAT[reg] # Nil THEN Q = sim.RAT[reg] /\ IsNone(V)
        ELSE Q = Nil /\ V = Some(sim.register_file[reg])

IssuedInstr == sim.program[NextInstr(sim.program, sim.pc, 1)]

C26_SourcesCaptured ==
    [][/\ stage = "issue" =>
            /\ \A i \in RsIds :
                  IssuedTo(sim.rs[i], sim'.rs[i]) =>
                      /\ Captured(IssuedInstr.rs, sim'.rs[i].Qj, sim'.rs[i].Vj)
                      /\ Captured(IssuedInstr.rt, sim'.rs[i].Qk, sim'.rs[i].Vk)
            /\ \A i \in LsbIds :
                  (IssuedTo(sim.lsb[i], sim'.lsb[i]) /\ sim'.lsb[i].op = "SW") =>
                      Captured(IssuedInstr.rt, sim'.lsb[i].Qt, sim'.lsb[i].Vt)
       /\ stage = "write_result" =>
            \A i \in LsbIds :
                LSBWritesBack(sim.lsb[i]) => ~IsNone(sim.lsb[i].address)]_vars

\* ------------------------------------------------------------------------
\* C27: when branch resolution finds a BEQ mispredicted, then at the end of
\* that resolution the RAT is the snapshot stored when the BEQ was issued,
\* the PC is the BEQ's immediate if it is taken and its PC + 4 otherwise,
\* the BEQ's ROB entry is still busy, its checkpoint is gone, no checkpoint
\* is active and the misprediction counter is one higher.
\* ------------------------------------------------------------------------
Actual(ent) == IF ent.branch_taken = None THEN FALSE ELSE ent.branch_taken[1]

\* the ROB entries the loop of resolve_branches resolves as mispredicted
RECURSIVE MispredictedIn(_, _)
MispredictedIn(m, i) ==
    IF i >= m.rob_size THEN {}
    ELSE (IF /\ Resolvable(m.rob[i])
             /\ m.rob[i].instr_pc # Nil
             /\ Predicted(m, m.rob[i].instr_pc) # Actual(m.rob[i])
          THEN {i} ELSE {})
         \cup MispredictedIn(resolve_entry(m, i), i + 1)

BranchAt(pc) == sim.program[FirstAt(sim.program, pc, 1)]

Recovered(i) ==
    LET ent == sim.rob[i]
        cp_id == ent.checkpoint_id
    IN /\ cp_id \in DOMAIN sim.checkpoints
       /\ sim'.RAT = sim.checkpoints[cp_id].RAT
       /\ sim'.pc = IF Actual(ent) THEN BranchAt(ent.instr_pc).imm[1]
                    ELSE ent.instr_pc + 4
       /\ sim'.rob[i].busy
       /\ sim'.rob[i].instr_pc = ent.instr_pc
       /\ cp_id \notin DOMAIN sim'.checkpoints
       /\ sim'.active_checkpoint_id = Nil
       /\ sim'.branch_mispredictions = sim.branch_mispredictions + 1

C27_MispredictionRecovery ==
    [][stage = "resolve_branches" =>
          \A i \in MispredictedIn(sim, 0) : Recovered(i)]_vars

\* right after the resolution of a taken branch that was predicted not
\* taken: fetch is at the target, the entry waits for commit, wrong-path
\* instructions are Flushed
C27_Witness ==
    /\ stage = "execute"
    /\ sim.branch_mispredictions = 1
    /\ sim.checkpoints = EmptyDict
    /\ \E i \in RobIds :
          /\ Resolvable(sim.rob[i])
          /\ sim.rob[i].branch_taken = Some(TRUE)
          /\ BranchAt(sim.rob[i].instr_pc).wb_cycle = sim.cycle
          /\ sim.pc = BranchAt(sim.rob[i].instr_pc).imm[1]
    /\ \E k \in DOMAIN sim.program : sim.program[k].state = "Flushed"

\* ------------------------------------------------------------------------
\* C28: every loaded program terminates: repeated steps set halted with
\* every instruction Committed or Flushed.  A machine that is drained while
\* every instruction still NotFetched lies behind the PC can never issue,
\* commit or halt again (issue_stage only skips the PC forward, lines
\* 463-467), so a terminating program never reaches such a state.
\* ------------------------------------------------------------------------
Stranded ==
    /\ ~sim.halted
    /\ Drained(sim)
    /\ \E k \in DOMAIN sim.program : sim.program[k].state = "NotFetched"
    /\ \A k \in DOMAIN sim.program :
          sim.program[k].state = "NotFetched" => sim.program[k].pc < sim.pc

C28_NeverStranded == ~Stranded

\* the liveness reading of C28
C28_EveryProgramHalts == <>(sim.halted /\ AllRetired(sim))

\* ------------------------------------------------------------------------
\* C29: no issued instruction stays in Issued, Executing or WB for ever; in
\* particular an instruction whose ROB entry a misprediction flush frees is
\* marked Flushed by that same branch resolution.
\* ------------------------------------------------------------------------
FreedByFlush(j) == sim.rob[j].busy /\ ~sim'.rob[j].busy

C29_FlushedEntryMarksInstruction ==
    [][stage = "resolve_branches" =>
          \A j \in RobIds :
              FreedByFlush(j) =>
                  \A k \in DOMAIN sim.program :
                      sim.program[k].pc = sim.rob[j].instr_pc
                          => sim'.program[k].state = "Flushed"]_vars

\* the liveness reading of C29
InFlight(k) == sim.program[k].state \in {"Issued", "Executing", "WB"}

C29_IssuedEventuallyRetires ==
    \A k \in ProgramIndexes :
        (k \in DOMAIN sim.program /\ InFlight(k))
            ~> (k \in DOMAIN sim.program /\ ~InFlight(k))

\* ------------------------------------------------------------------------
\* C30: branch resolution acts on the ROB entry of a BEQ in one cycle only,
\* the cycle of the branch's write-back; in later cycles, while the ready
\* entry waits in the ROB for commit, resolution does not act on it again.
\* ------------------------------------------------------------------------
\* the ROB entries the loop of resolve_branches acts on
RECURSIVE ResolvedIn(_, _)
ResolvedIn(m, i) ==
    IF i >= m.rob_size THEN {}
    ELSE (IF Resolvable(m.rob[i]) /\ m.rob[i].instr_pc # Nil THEN {i} ELSE {})
         \cup ResolvedIn(resolve_entry(m, i), i + 1)

C30_ResolvedOnce ==
    stage = "resolve_branches" =>
        \A i \in ResolvedIn(sim, 0) :
            BranchAt(sim.rob[i].instr_pc).wb_cycle = sim.cycle

\* ------------------------------------------------------------------------
\* C31: each instruction is issued at most once in a run: an instruction
\* that has left NotFetched never returns to it and keeps its issue cycle,
\* the issue stage issues only an instruction that is NotFetched, the
\* number of issues is the number of instructions that have left
\* NotFetched, and so neither the number of issues nor committed_count
\* exceeds the program length, also after a branch is taken to the address
\* of an instruction that was already issued.
\* ------------------------------------------------------------------------
Fetched(m) == {k \in DOMAIN m.program : m.program[k].state # "NotFetched"}

IssuedOnce ==
    \A k \in DOMAIN sim.program :
        /\ k \in Fetched(sim) =>
              /\ k \in Fetched(sim')
              /\ sim'.program[k].issue_cycle = sim.program[k].issue_cycle
        /\ (k \notin Fetched(sim) /\ k \in Fetched(sim')) =>
              /\ stage = "issue"
              /\ sim'.program[k].state = "Issued"
              /\ sim'.program[k].issue_cycle = sim.cycle
              /\ sim'.rob_enqueue_seq = sim.rob_enqueue_seq + 1

C31_IssuedAtMostOnce ==
    /\ [](/\ sim.rob_enqueue_seq = Cardinality(Fetched(sim))
          /\ sim.rob_enqueue_seq <= Len(sim.program)
          /\ sim.committed_count <= Len(sim.program))
    /\ [][IssuedOnce]_vars

\* a branch has been taken back to the first instruction, which had already
\* committed; the run went on and halted without issuing it again
C31_Witness ==
    /\ sim.halted
    /\ sim.branch_mispredictions = 1
    /\ \E k \in DOMAIN sim.program :
          /\ sim.program[k].op = "BEQ"
          /\ sim.program[k].imm = Some(0)
          /\ sim.program[k].pc > 0
          /\ sim.program[k].state = "Committed"
    /\ sim.program[1].state = "Committed"
    /\ sim.program[1].commit_cycle < sim.cycle
    /\ sim.committed_count >= 3

====
